---- MODULE Spec2Model ----
(***************************************************************************)
(* Model of src/pig_latin.py: the IPA tokenizer, the nucleus merger, the   *)
(* syllable splitter, the onset/nucleus/coda extractor and the Pig Latin   *)
(* transformer.                                                            *)
(*                                                                         *)
(* A Python str is a sequence of one-character strings.  IPA characters    *)
(* are written in ASCII (X-SAMPA style):                                   *)
(*   "'"  U+02C8 primary stress      ","  U+02CC secondary stress          *)
(*   "."  U+002E full stop           "*"  U+00B7 middle dot                *)
(*   ":"  U+02D0 length mark         ";"  U+02D1 half-length mark          *)
(*   "^"  U+0361 tie bar above       "_"  U+035C tie bar below             *)
(*   "="  U+0329 syllabic diacritic  "~"  U+0303 nasalisation (Mn)         *)
(*   "I" U+026A  "@" U+0259  "V" U+028C  "A" U+0251  (vowel letters)       *)
(*   "S" U+0283 (consonant letter); other letters stand for themselves.    *)
(***************************************************************************)
EXTENDS Integers, Sequences, FiniteSets

VARIABLES pc, ipa_word, ipa, tokens, syllables, merged, results, piglatin,
          arg, ret, ret2

vars == <<pc, ipa_word, ipa, tokens, syllables, merged, results, piglatin,
          arg, ret, ret2>>

(***************************************************************************)
(* 1) Basic IPA resources                                                  *)
(***************************************************************************)
\* the vowel letters of the 32-symbol inventory that the modelled words use
IPA_VOWELS == {"i", "u", "e", "o", "a", "I", "@", "V", "A"}

STRESS_MARKS == {"'", ","}

SYLLABLE_BREAKS == {".", "*"}

LENGTH_MARKS == {":", ";"}

TIE_BARS == {"^", "_"}

SYLLABIC_DIACRITIC == "="

\* unicodedata.category(ch) == "Mn" for the characters of the model: both
\* tie bars (U+0361, U+035C) are nonspacing marks, as are U+0329 and U+0303.
NonspacingMarks == {"^", "_", "=", "~"}

\* str.isspace() / the characters str.strip() removes
Whitespace == {" "}

None == "None"

(***************************************************************************)
(* Python string primitives                                                *)
(***************************************************************************)
RECURSIVE lstrip(_)
lstrip(s) ==
    IF s # <<>> /\ Head(s) \in Whitespace THEN lstrip(Tail(s)) ELSE s

RECURSIVE rstrip(_)
rstrip(s) ==
    IF s # <<>> /\ s[Len(s)] \in Whitespace
    THEN rstrip(SubSeq(s, 1, Len(s) - 1))
    ELSE s

strip(s) == rstrip(lstrip(s))

startswith(s, ch) == s # <<>> /\ s[1] = ch

endswith(s, ch) == s # <<>> /\ s[Len(s)] = ch

\* sep.join(parts)
RECURSIVE join(_, _)
join(sep, parts) ==
    IF parts = <<>> THEN <<>>
    ELSE IF Len(parts) = 1 THEN parts[1]
    ELSE parts[1] \o sep \o join(sep, Tail(parts))

\* [t for t in toks if t not in STRESS_MARKS]
RECURSIVE not_stress(_)
not_stress(toks) ==
    IF toks = <<>> THEN <<>>
    ELSE IF Len(Head(toks)) = 1 /\ Head(toks)[1] \in STRESS_MARKS
         THEN not_stress(Tail(toks))
         ELSE <<Head(toks)>> \o not_stress(Tail(toks))

(***************************************************************************)
(* 3) IPA tokenization helpers                                             *)
(***************************************************************************)
strip_brackets_no_retrim(s0) ==
    LET s == strip(s0)
    IN  IF (startswith(s, "/") /\ endswith(s, "/"))
           \/ (startswith(s, "[") /\ endswith(s, "]"))
        THEN SubSeq(s, 2, Len(s) - 1)
        ELSE s

strip_brackets(s0) ==
    LET s == strip(s0)
    IN  IF (startswith(s, "/") /\ endswith(s, "/"))
           \/ (startswith(s, "[") /\ endswith(s, "]"))
        THEN strip(SubSeq(s, 2, Len(s) - 1))
        ELSE s

is_combining(ch) == ch \in NonspacingMarks

\* while i < len(ipa) and is_combining(ipa[i]): i += 1   (1-based index)
RECURSIVE end_combining(_, _)
end_combining(s, i) ==
    IF i <= Len(s) /\ is_combining(s[i]) THEN end_combining(s, i + 1) ELSE i

\* while i < len(ipa) and ipa[i] in LENGTH_MARKS: i += 1
RECURSIVE end_length(_, _)
end_length(s, i) ==
    IF i <= Len(s) /\ s[i] \in LENGTH_MARKS THEN end_length(s, i + 1) ELSE i

\* tokens[-1] += ch
append_to_last(toks, ch) ==
    [toks EXCEPT ![Len(toks)] = @ \o <<ch>>]

\* One segment starting at index i: <<end index, segment>>.
new_segment(s, i) ==
    LET i1 == end_combining(s, i + 1)
        i2 == end_length(s, i1)
    IN  IF i2 <= Len(s) /\ s[i2] \in TIE_BARS
        THEN IF i2 + 1 <= Len(s)
             THEN LET i3 == end_combining(s, i2 + 2)
                      i4 == end_length(s, i3)
                  IN  <<i4, SubSeq(s, i, i4 - 1)>>
             ELSE <<i2 + 1, SubSeq(s, i, i2 - 1)>>
        ELSE <<i2, SubSeq(s, i, i2 - 1)>>

\* The while loop of tokenize_ipa from index i with the tokens built so far.
RECURSIVE scan(_, _, _)
scan(s, i, toks) ==
    IF i > Len(s) THEN toks
    ELSE LET ch == s[i]
         IN  IF ch \in Whitespace THEN scan(s, i + 1, toks)
             ELSE IF ch \in STRESS_MARKS \/ ch \in SYLLABLE_BREAKS
                  THEN scan(s, i + 1, Append(toks, <<ch>>))
             ELSE IF ch \in LENGTH_MARKS \/ is_combining(ch)
                  THEN IF toks # <<>>
                       THEN scan(s, i + 1, append_to_last(toks, ch))
                       ELSE scan(s, i + 1, Append(toks, <<ch>>))
             ELSE LET seg == new_segment(s, i)
                  IN  scan(s, seg[1], Append(toks, seg[2]))

tokenize_ipa(w) == scan(strip_brackets(w), 1, <<>>)

(***************************************************************************)
(* 4) Nucleus detection and vowel merging                                  *)
(***************************************************************************)
base_symbol(seg) ==
    LET idx == {k \in 1..Len(seg) :
                   /\ ~is_combining(seg[k])
                   /\ seg[k] \notin LENGTH_MARKS
                   /\ seg[k] \notin TIE_BARS}
    IN  IF idx # {}
        THEN seg[CHOOSE k \in idx : \A m \in idx : k <= m]
        ELSE IF seg # <<>> THEN seg[1] ELSE ""

is_nucleus_segment(seg) ==
    \/ \E k \in 1..Len(seg) : seg[k] = SYLLABIC_DIACRITIC
    \/ base_symbol(seg) \in IPA_VOWELS

\* while j < len(tokens) and is_nucleus_segment(tokens[j]): j += 1
RECURSIVE end_nucleus_run(_, _)
end_nucleus_run(toks, j) ==
    IF j <= Len(toks) /\ is_nucleus_segment(toks[j])
    THEN end_nucleus_run(toks, j + 1)
    ELSE j

RECURSIVE merge_from(_, _)
merge_from(toks, i) ==
    IF i > Len(toks) THEN <<>>
    ELSE IF is_nucleus_segment(toks[i])
         THEN LET j == end_nucleus_run(toks, i + 1)
              IN  <<join(<<>>, SubSeq(toks, i, j - 1))>> \o merge_from(toks, j)
         ELSE <<toks[i]>> \o merge_from(toks, i + 1)

\* a merger that fuses at most two neighbouring nucleus segments
RECURSIVE merge_pairs_from(_, _)
merge_pairs_from(toks, i) ==
    IF i > Len(toks) THEN <<>>
    ELSE IF is_nucleus_segment(toks[i]) /\ i + 1 <= Len(toks)
            /\ is_nucleus_segment(toks[i + 1])
         THEN <<toks[i] \o toks[i + 1]>> \o merge_pairs_from(toks, i + 2)
         ELSE <<toks[i]>> \o merge_pairs_from(toks, i + 1)

merge_consecutive_vowels_pairs(toks) == merge_pairs_from(toks, 1)

merge_consecutive_vowels(toks) == merge_from(toks, 1)

(***************************************************************************)
(* 5) Syllables + ONC extraction                                           *)
(***************************************************************************)
is_break(t) == Len(t) = 1 /\ t[1] \in SYLLABLE_BREAKS

is_stress(t) == Len(t) = 1 /\ t[1] \in STRESS_MARKS

\* [s for s in syllables if s]
RECURSIVE non_empty(_)
non_empty(groups) ==
    IF groups = <<>> THEN <<>>
    ELSE IF Head(groups) = <<>> THEN non_empty(Tail(groups))
         ELSE <<Head(groups)>> \o non_empty(Tail(groups))

\* the for loop of split_into_syllables from token k
RECURSIVE split_loop(_, _, _)
split_loop(toks, k, syls) ==
    IF k > Len(toks) THEN syls
    ELSE IF is_break(toks[k])
         THEN IF syls[Len(syls)] # <<>>
              THEN split_loop(toks, k + 1, Append(syls, <<>>))
              ELSE split_loop(toks, k + 1, syls)
         ELSE split_loop(toks, k + 1,
                         [syls EXCEPT ![Len(syls)] = Append(@, toks[k])])

\* a splitter that opens a group at every break and keeps the empty ones
RECURSIVE split_keep_empty_loop(_, _, _)
split_keep_empty_loop(toks, k, syls) ==
    IF k > Len(toks) THEN syls
    ELSE IF is_break(toks[k])
         THEN split_keep_empty_loop(toks, k + 1, Append(syls, <<>>))
         ELSE split_keep_empty_loop(toks, k + 1,
                         [syls EXCEPT ![Len(syls)] = Append(@, toks[k])])

split_into_syllables_keep_empty(toks) ==
    split_keep_empty_loop(toks, 1, << <<>> >>)

split_into_syllables(toks) == non_empty(split_loop(toks, 1, << <<>> >>))

\* number of leading stress-mark tokens removed by the while loop
RECURSIVE leading_count(_)
leading_count(syl_tokens) ==
    IF syl_tokens # <<>> /\ is_stress(Head(syl_tokens))
    THEN 1 + leading_count(Tail(syl_tokens))
    ELSE 0

\* a loop that keeps the stress mark it met first
leading_stress_first(syl_tokens) ==
    IF leading_count(syl_tokens) = 0 THEN None ELSE syl_tokens[1][1]

\* value of `stress` after the while loop: reassigned on every iteration
RECURSIVE stress_loop(_, _)
stress_loop(syl_tokens, stress) ==
    IF syl_tokens # <<>> /\ is_stress(Head(syl_tokens))
    THEN stress_loop(Tail(syl_tokens), Head(syl_tokens)[1])
    ELSE stress

leading_stress(syl_tokens) == stress_loop(syl_tokens, None)

\* value of `syl_tokens` after the while loop
after_stress(syl_tokens) ==
    SubSeq(syl_tokens, leading_count(syl_tokens) + 1, Len(syl_tokens))

\* index of the last nucleus-capable token, 0 for None
nucleus_index_last(toks) ==
    LET idx == {k \in 1..Len(toks) : is_nucleus_segment(toks[k])}
    IN  IF idx = {} THEN 0 ELSE CHOOSE k \in idx : \A m \in idx : m <= k

\* nuc_idx: index of the first nucleus-capable token, 0 for None
nucleus_index(toks) ==
    LET idx == {k \in 1..Len(toks) : is_nucleus_segment(toks[k])}
    IN  IF idx = {} THEN 0 ELSE CHOOSE k \in idx : \A m \in idx : k <= m

SyllableONC(o, n, c, st) == [onset |-> o, nucleus |-> n, coda |-> c, stress |-> st]

onset_nucleus_coda_for_syllable(syl_tokens0) ==
    LET stress     == leading_stress(syl_tokens0)
        syl_tokens == after_stress(syl_tokens0)
        nuc_idx    == nucleus_index(syl_tokens)
    IN  IF nuc_idx = 0
        THEN SyllableONC(join(<<>>, syl_tokens), <<>>, <<>>, stress)
        ELSE SyllableONC(
               join(<<>>, not_stress(SubSeq(syl_tokens, 1, nuc_idx - 1))),
               syl_tokens[nuc_idx],
               join(<<>>, not_stress(SubSeq(syl_tokens, nuc_idx + 1, Len(syl_tokens)))),
               stress)

RECURSIVE onc_each(_)
onc_each(syls) ==
    IF syls = <<>> THEN <<>>
    ELSE <<onset_nucleus_coda_for_syllable(merge_consecutive_vowels(Head(syls)))>>
         \o onc_each(Tail(syls))

segment_word_onc(w) == onc_each(split_into_syllables(tokenize_ipa(w)))

(***************************************************************************)
(* 6) Pig Latin (IPA-based)                                                *)
(***************************************************************************)
SUFFIX == <<"e", "i">>

whole(s) == s.onset \o s.nucleus \o s.coda

\* [s.onset + s.nucleus + s.coda for s in syllables]
RECURSIVE wholes(_)
wholes(sylls) ==
    IF sylls = <<>> THEN <<>> ELSE <<whole(Head(sylls))>> \o wholes(Tail(sylls))

join_syllables_to_ipa(sylls) == join(<<".">>, wholes(sylls))

\* the variant without the no-nucleus fallback
pig_latin_from_ipa_no_fallback(w) ==
    LET sylls == segment_word_onc(w)
    IN  IF sylls = <<>> THEN <<>>
        ELSE LET first    == sylls[1]
                 original == join_syllables_to_ipa(sylls)
             IN  IF first.onset = <<>> THEN original \o SUFFIX
                 ELSE join(<<".">>, <<first.nucleus \o first.coda>> \o wholes(Tail(sylls)))
                      \o first.onset \o SUFFIX

pig_latin_from_ipa(w) ==
    LET sylls == segment_word_onc(w)
    IN  IF sylls = <<>> THEN <<>>
        ELSE LET first    == sylls[1]
                 original == join_syllables_to_ipa(sylls)
             IN  IF first.nucleus = <<>> /\ original # <<>> THEN original \o SUFFIX
                 ELSE IF first.onset = <<>> THEN original \o SUFFIX
                 ELSE join(<<".">>, <<first.nucleus \o first.coda>> \o wholes(Tail(sylls)))
                      \o first.onset \o SUFFIX

(***************************************************************************)
(* Bounds and input sets                                                   *)
(***************************************************************************)
MaxWordLen == 4

MaxStripLen == 4

MaxTokens == 3

BoundedSeq(S, n) == UNION {[1..k -> S] : k \in 0..n}

WordAlphabet == {"s", "a", "=", ":", "^", "'", ".", " ", "/", "[", "]"}

\* /straIk/   @.bVv   t^S.A:   pn=
Examples ==
    { <<"/", "s", "t", "r", "a", "I", "k", "/">>,
      <<"@", ".", "b", "V", "v">>,
      <<"t", "^", "S", ".", "A", ":">>,
      <<"p", "n", "=">> }

Words == BoundedSeq(WordAlphabet, MaxWordLen) \cup Examples

StripAlphabet == {"s", " ", "/", "[", "]"}

StripInputs == BoundedSeq(StripAlphabet, MaxStripLen)

TokenSet ==
    { <<"s">>, <<"a">>, <<"n", "=">>, <<"'">>, <<",">>, <<":">>, <<"a", ":">> }

TokenSeqs == BoundedSeq(TokenSet, MaxTokens)

(***************************************************************************)
(* The transformer as a pipeline: pig_latin_from_ipa -> segment_word_onc   *)
(* -> tokenize_ipa, split_into_syllables, then per syllable                *)
(* merge_consecutive_vowels and onset_nucleus_coda_for_syllable.           *)
(***************************************************************************)
Idle == /\ arg = <<>> /\ ret = <<>> /\ ret2 = <<>>

Blank ==
    /\ ipa = <<>> /\ tokens = <<>> /\ syllables = <<>>
    /\ merged = <<>> /\ results = <<>> /\ piglatin = <<>>

Init ==
    /\ pc = "start"
    /\ ipa_word \in Words
    /\ Blank
    /\ Idle

\* segment_word_onc line 213: tokens = tokenize_ipa(ipa_word)
TokenizeIpa ==
    /\ pc = "start"
    /\ ipa' = strip_brackets(ipa_word)
    /\ tokens' = tokenize_ipa(ipa_word)
    /\ pc' = "tokenized"
    /\ UNCHANGED <<ipa_word, syllables, merged, results, piglatin, arg, ret, ret2>>

\* segment_word_onc line 214
SplitIntoSyllables ==
    /\ pc = "tokenized"
    /\ syllables' = split_into_syllables(tokens)
    /\ pc' = "split"
    /\ UNCHANGED <<ipa_word, ipa, tokens, merged, results, piglatin, arg, ret, ret2>>

\* one iteration of the loop of segment_word_onc, lines 217-219
SegmentSyllable ==
    /\ pc = "split"
    /\ Len(results) < Len(syllables)
    /\ LET syl        == syllables[Len(results) + 1]
           syl_merged == merge_consecutive_vowels(syl)
       IN  /\ merged' = Append(merged, syl_merged)
           /\ results' = Append(results, onset_nucleus_coda_for_syllable(syl_merged))
    /\ UNCHANGED <<pc, ipa_word, ipa, tokens, syllables, piglatin, arg, ret, ret2>>

\* pig_latin_from_ipa lines 237-254 once segment_word_onc has returned
PigLatinFromIpa ==
    /\ pc = "split"
    /\ Len(results) = Len(syllables)
    /\ piglatin' = pig_latin_from_ipa(ipa_word)
    /\ pc' = "done"
    /\ UNCHANGED <<ipa_word, ipa, tokens, syllables, merged, results, arg, ret, ret2>>

Next == TokenizeIpa \/ SplitIntoSyllables \/ SegmentSyllable \/ PigLatinFromIpa

Spec == Init /\ [][Next]_vars

(***************************************************************************)
(* strip_brackets applied to a string and to its own result                *)
(***************************************************************************)
InitStrip ==
    /\ pc = "strip0"
    /\ arg \in StripInputs
    /\ ret = <<>> /\ ret2 = <<>>
    /\ ipa_word = <<>>
    /\ Blank

StripOnce ==
    /\ pc = "strip0"
    /\ ret' = strip_brackets(arg)
    /\ pc' = "strip1"
    /\ UNCHANGED <<ipa_word, ipa, tokens, syllables, merged, results, piglatin, arg, ret2>>

StripTwice ==
    /\ pc = "strip1"
    /\ ret2' = strip_brackets(ret)
    /\ pc' = "strip2"
    /\ UNCHANGED <<ipa_word, ipa, tokens, syllables, merged, results, piglatin, arg, ret>>

NextStrip == StripOnce \/ StripTwice

SpecStrip == InitStrip /\ [][NextStrip]_vars

(***************************************************************************)
(* merge_consecutive_vowels applied to a token list and to its own result  *)
(***************************************************************************)
InitMerge ==
    /\ pc = "merge0"
    /\ arg \in TokenSeqs
    /\ ret = <<>> /\ ret2 = <<>>
    /\ ipa_word = <<>>
    /\ Blank

MergeOnce ==
    /\ pc = "merge0"
    /\ ret' = merge_consecutive_vowels(arg)
    /\ pc' = "merge1"
    /\ UNCHANGED <<ipa_word, ipa, tokens, syllables, merged, results, piglatin, arg, ret2>>

MergeTwice ==
    /\ pc = "merge1"
    /\ ret2' = merge_consecutive_vowels(ret)
    /\ pc' = "merge2"
    /\ UNCHANGED <<ipa_word, ipa, tokens, syllables, merged, results, piglatin, arg, ret>>

NextMerge == MergeOnce \/ MergeTwice

SpecMerge == InitMerge /\ [][NextMerge]_vars

(***************************************************************************)
(* onset_nucleus_coda_for_syllable applied to a token group                *)
(***************************************************************************)
InitOnc ==
    /\ pc = "onc0"
    /\ arg \in TokenSeqs
    /\ ret = <<>> /\ ret2 = <<>>
    /\ ipa_word = <<>>
    /\ Blank

ExtractONC ==
    /\ pc = "onc0"
    /\ ret' = onset_nucleus_coda_for_syllable(arg)
    /\ pc' = "onc1"
    /\ UNCHANGED <<ipa_word, ipa, tokens, syllables, merged, results, piglatin, arg, ret2>>

NextOnc == ExtractONC

SpecOnc == InitOnc /\ [][NextOnc]_vars

(***************************************************************************)
(* Properties                                                              *)
(***************************************************************************)
Chars(s) == {s[k] : k \in 1..Len(s)}

Markers == STRESS_MARKS \cup SYLLABLE_BREAKS

\* a base phone character: starts a new segment in tokenize_ipa
IsPhone(ch) ==
    /\ ch \notin Whitespace
    /\ ch \notin Markers
    /\ ch \notin LENGTH_MARKS
    /\ ~is_combining(ch)

\* s[a..b] is a run of combining marks followed by a run of length marks
MarksThenLengths(s, a, b) ==
    \E m \in (a - 1)..b :
        /\ \A k \in a..m : is_combining(s[k])
        /\ \A k \in (m + 1)..b : s[k] \in LENGTH_MARKS

Contains(t, sub) ==
    \E o \in 1..Len(t) : o + Len(sub) - 1 <= Len(t) /\ SubSeq(t, o, o + Len(sub) - 1) = sub

Enclosed(s) ==
    \/ (startswith(s, "/") /\ endswith(s, "/"))
    \/ (startswith(s, "[") /\ endswith(s, "]"))

NucleusTokens(g) == {i \in 1..Len(g) : is_nucleus_segment(g[i])}

\* the transformer rule of the specification, over the ONC records
TransformerRule(sylls) ==
    IF sylls = <<>> THEN <<>>
    ELSE LET first    == sylls[1]
             original == join(<<".">>, [k \in 1..Len(sylls) |-> whole(sylls[k])])
             rest     == join(<<".">>, [k \in 1..Len(sylls) |->
                                IF k = 1 THEN first.nucleus \o first.coda
                                         ELSE whole(sylls[k])])
         IN  CASE first.nucleus = <<>> /\ original # <<>> -> original \o <<"e", "i">>
               [] ~(first.nucleus = <<>> /\ original # <<>>) /\ first.onset = <<>>
                     -> original \o <<"e", "i">>
               [] OTHER -> rest \o first.onset \o <<"e", "i">>

\* C1: the output of pig_latin_from_ipa is the transformer rule applied to the
\* records of segment_word_onc: '' for no syllables, original + 'ei' for a
\* first syllable without nucleus or without onset, otherwise rest + onset +
\* 'ei'; '/straIk/' gives 'aIkstrei' and '@.bVv' gives '@.bVvei'.
C1_TransformerRule ==
    pc = "done" =>
        /\ piglatin = TransformerRule(results)
        /\ ipa_word = <<"/", "s", "t", "r", "a", "I", "k", "/">>
              => piglatin = <<"a", "I", "k", "s", "t", "r", "e", "i">>
        /\ ipa_word = <<"@", ".", "b", "V", "v">>
              => piglatin = <<"@", ".", "b", "V", "v", "e", "i">>

\* a word of two syllables whose first syllable has an onset and a nucleus
C1_Witness ==
    /\ pc = "done"
    /\ Len(results) >= 2
    /\ results[1].onset # <<>>
    /\ results[1].nucleus # <<>>
    /\ piglatin # <<>>

\* C2 (as stated): the output is empty exactly when the input is empty or
\* consists only of whitespace.
C2_EmptyOnlyForBlankInput ==
    pc = "done" => (piglatin = <<>> <=> Chars(ipa_word) \subseteq Whitespace)

\* C2 (amended): the output is empty exactly when the bracket-stripped input
\* holds nothing but whitespace and syllable-break characters.
C2_EmptyIffNoSyllable ==
    pc = "done" =>
        (piglatin = <<>> <=> Chars(ipa) \subseteq (Whitespace \cup SYLLABLE_BREAKS))

\* an input of breaks only yields the empty output
C2_Witness ==
    /\ pc = "done"
    /\ piglatin = <<>>
    /\ "." \in Chars(ipa)

\* C3: without whitespace in the bracket-stripped input, the concatenation of
\* the tokens of tokenize_ipa equals the bracket-stripped input.
C3_TokenizerReversible ==
    pc # "start" =>
        (Chars(ipa) \cap Whitespace = {} => join(<<>>, tokens) = ipa)

\* C5 (as stated): a syllable with a nucleus has exactly one nucleus-capable
\* token in its merged group, and that token is the nucleus.
C5_ExactlyOneNucleus ==
    \A k \in 1..Len(results) :
        results[k].nucleus # <<>> =>
            /\ Cardinality(NucleusTokens(merged[k])) = 1
            /\ \E n \in NucleusTokens(merged[k]) : merged[k][n] = results[k].nucleus

\* C5 (amended): the nucleus is one token of the merged group, satisfies
\* is_nucleus_segment, is the first token of the group that does (no token of
\* the onset satisfies it), and the token right after it does not.
C5_FirstNucleus ==
    \A k \in 1..Len(results) :
        results[k].nucleus # <<>> =>
            \E n \in 1..Len(merged[k]) :
                LET g == merged[k]
                IN  /\ g[n] = results[k].nucleus
                    /\ is_nucleus_segment(results[k].nucleus)
                    /\ \A i \in 1..(n - 1) : ~is_nucleus_segment(g[i])
                    /\ results[k].onset = join(<<>>, not_stress(SubSeq(g, 1, n - 1)))
                    /\ n < Len(g) => ~is_nucleus_segment(g[n + 1])

\* a merged nucleus in a group that holds a second nucleus-capable token
C5_Witness ==
    /\ pc = "done"
    /\ \E k \in 1..Len(results) :
          /\ Len(results[k].nucleus) >= 2
          /\ Cardinality(NucleusTokens(merged[k])) >= 2

\* C8: a base phone (with its combining marks and length marks), a tie bar
\* and the next phone end up together in one token.
C8_TieBarOneToken ==
    pc # "start" =>
        \A i \in 1..Len(ipa), j \in 1..Len(ipa) :
            ( /\ i < j /\ j < Len(ipa)
              /\ IsPhone(ipa[i])
              /\ MarksThenLengths(ipa, i + 1, j - 1)
              /\ ipa[j] \in TIE_BARS
              /\ IsPhone(ipa[j + 1]) )
            => \E t \in 1..Len(tokens) : Contains(tokens[t], SubSeq(ipa, i, j + 1))

\* C9: every token is a stress mark or syllable break standing alone, or a
\* segment without any stress-mark or syllable-break character.
C9_MarkersStandAlone ==
    pc # "start" =>
        \A t \in 1..Len(tokens) :
            \/ (Len(tokens[t]) = 1 /\ tokens[t][1] \in Markers)
            \/ Chars(tokens[t]) \cap Markers = {}

\* C7 (as stated): strip_brackets applied twice equals strip_brackets applied
\* once, for every string.
C7_StripIdempotent ==
    pc = "strip2" => ret2 = ret

\* C7 (amended): strip_brackets applied twice equals strip_brackets applied
\* once whenever the first result is not itself enclosed in a delimiter pair.
C7_StripIdempotentUnlessNested ==
    pc = "strip2" => (~Enclosed(ret) => ret2 = ret)

\* a delimiter pair with inner whitespace was removed
C7_Witness ==
    /\ pc = "strip2"
    /\ ret # <<>>
    /\ ~Enclosed(ret)
    /\ Len(ret) + 2 < Len(strip(arg))

\* C6: merging the merged list again changes nothing; the merged list keeps
\* the characters, every token of it is nucleus-capable or an unmerged token
\* of the input, and no two neighbours are both nucleus-capable.
C6_MergeIdempotent ==
    pc = "merge2" =>
        /\ ret2 = ret
        /\ join(<<>>, ret) = join(<<>>, arg)
        /\ \A i \in 1..Len(ret) :
              \/ is_nucleus_segment(ret[i])
              \/ \E j \in 1..Len(arg) : arg[j] = ret[i]
        /\ \A i \in 1..(Len(ret) - 1) :
              ~(is_nucleus_segment(ret[i]) /\ is_nucleus_segment(ret[i + 1]))

\* a run of nucleus segments was fused and other tokens remain
C6_Witness ==
    /\ pc = "merge2"
    /\ Len(ret) < Len(arg)
    /\ Len(ret) >= 2

\* C4: onset + nucleus + coda equals the concatenation of the tokens of the
\* group that are not stress marks.
C4_RoundTrip ==
    pc = "onc1" => whole(ret) = join(<<>>, not_stress(arg))

\* C10 (as stated): the stress field is the stress mark at index 0 of the
\* group, None when the group does not begin with a stress mark.
C10_StressIsFirstLeading ==
    pc = "onc1" =>
        ret.stress = (IF arg # <<>> /\ is_stress(arg[1]) THEN arg[1][1] ELSE None)

\* C10 (amended): all leading stress marks are stripped and the stress field
\* is the last of them, None when the group does not begin with a stress mark.
C10_StressIsLastLeading ==
    pc = "onc1" =>
        /\ ret.stress = (IF leading_count(arg) = 0 THEN None
                         ELSE arg[leading_count(arg)][1])
        /\ whole(ret) # <<>> => whole(ret)[1] \notin STRESS_MARKS

\* a group that begins with two different stress marks
C10_Witness ==
    /\ pc = "onc1"
    /\ leading_count(arg) >= 2
    /\ arg[1] # arg[2]

====
